---- MODULE Spec2Model ----
(***************************************************************************)
(* A model of news_summarizer.py: main() = fetch_rss_feeds, then           *)
(* summarize_with_openai, then save_report.                                *)
(*                                                                         *)
(* Text (titles, descriptions, the rendered prompt) is a sequence of       *)
(* tokens; a keyword is one token and NL is the newline character.  A      *)
(* calendar date is a record [y, m, d]; a rendered date is the sequence of *)
(* its zero-padded numeric fields in the order the format gives them, so   *)
(* that comparing two rendered dates as strings is comparing these         *)
(* sequences lexicographically.                                            *)
(***************************************************************************)
EXTENDS Integers, Sequences, FiniteSets, TLC

VARIABLES
    feeds,                 \* what feedparser.parse gives for each line of rss_links.txt
    CONFIG,                \* config.yaml, loaded at import
    now,                   \* datetime.now(): [date |-> [y, m, d], hour |-> 0..23], the
                           \* same at each reading (a run is short against the hour)
    pc,                    \* the position of main()
    feedIdx,               \* the outer loop of fetch_rss_feeds (for url in rss_urls)
    entries,               \* feed.entries[:max_articles_per_feed] of the current feed
    entryIdx,              \* the inner loop (for entry in entries)
    articles,              \* the list fetch_rss_feeds builds and returns
    published,             \* history: the timestamp of the entry each article came from
    articles_with_scores,  \* the score of articles[i], once scored
    articles_to_process,   \* the selected articles, as indices into articles
    articles_content,      \* the rendered article block of the first request
    calls,                 \* the article block of every request sent to the service
    errors,                \* the error of every request that raised
    summary,               \* what summarize_with_openai returned
    reports                \* the body of every report file written

vars == <<feeds, CONFIG, now, pc, feedIdx, entries, entryIdx, articles, published,
          articles_with_scores, articles_to_process, articles_content, calls,
          errors, summary, reports>>

----------------------------------------------------------------------------
(* Sequences *)

Min(a, b) == IF a <= b THEN a ELSE b

\* xs[:n]
Take(xs, n) == SubSeq(xs, 1, Min(n, Len(xs)))

Reverse(xs) == [i \in 1..Len(xs) |-> xs[Len(xs) + 1 - i]]

RECURSIVE Concat(_)
Concat(xss) == IF xss = <<>> THEN <<>> ELSE Head(xss) \o Concat(Tail(xss))

\* Python's comparison of two strings or tuples of comparable items
RECURSIVE LexLess(_, _)
LexLess(a, b) ==
    IF b = <<>> THEN FALSE
    ELSE IF a = <<>> THEN TRUE
    ELSE IF Head(a) # Head(b) THEN Head(a) < Head(b)
    ELSE LexLess(Tail(a), Tail(b))

----------------------------------------------------------------------------
(* Dates: datetime.date, strftime and strptime *)

MonthLen == <<31, 28, 31, 30, 31, 30, 31, 31, 30, 31, 30, 31>>

RECURSIVE DaysBefore(_)
DaysBefore(m) == IF m = 1 THEN 0 ELSE MonthLen[m - 1] + DaysBefore(m - 1)

\* date.toordinal(), for the years without a leap day between them
Ordinal(date) == 365 * date.y + DaysBefore(date.m) + date.d

\* (a - b).days
DaysBetween(a, b) == Ordinal(a) - Ordinal(b)

DateFormats == {"%Y-%m-%d", "%d-%m-%Y"}

\* date.strftime(fmt)
Strftime(date, fmt) ==
    IF fmt = "%Y-%m-%d" THEN <<date.y, date.m, date.d>>
    ELSE <<date.d, date.m, date.y>>

\* datetime.strptime(s, fmt): midnight of the day the text names, or ValueError
Strptime(s, fmt) ==
    IF Len(s) # 3 THEN [ok |-> FALSE, date |-> [y |-> 0, m |-> 0, d |-> 0]]
    ELSE IF fmt = "%Y-%m-%d" THEN [ok |-> TRUE, date |-> [y |-> s[1], m |-> s[2], d |-> s[3]]]
    ELSE [ok |-> TRUE, date |-> [y |-> s[3], m |-> s[2], d |-> s[1]]]

----------------------------------------------------------------------------
(* calculate_article_priority *)

NL == "\n"

critical_keywords == <<"breaking", "urgent", "critical", "emergency", "alert", "crisis">>
important_keywords == <<"announced", "official", "update", "major", "significant">>

\* str.lower() of one token
LowerToken(t) ==
    CASE t = "Breaking" -> "breaking"
      [] t = "Quarterly" -> "quarterly"
      [] t = "Update" -> "update"
      [] OTHER -> t

Lower(text) == [i \in 1..Len(text) |-> LowerToken(text[i])]

\* keyword in text
Contains(keyword, text) == \E i \in 1..Len(text) : text[i] = keyword

Occurrences(keyword, text) == Cardinality({i \in 1..Len(text) : text[i] = keyword})

\* the mutant of Hits: every occurrence counted
HitsPerOccurrence(keyword, text) == Occurrences(keyword, text)

\* if keyword in text: score += weight      (the number of times weight is added)
Hits(keyword, text) == IF Contains(keyword, text) THEN 1 ELSE 0

RECURSIVE KeywordPoints(_, _, _)
KeywordPoints(keywords, text, weight) ==
    IF keywords = <<>> THEN 0
    ELSE weight * Hits(Head(keywords), text) + KeywordPoints(Tail(keywords), text, weight)

KeywordScore(article) ==
    LET title == Lower(article.title)
        description == Lower(article.description)
    IN  KeywordPoints(critical_keywords, title, 5)
      + KeywordPoints(critical_keywords, description, 3)
      + KeywordPoints(important_keywords, title, 3)
      + KeywordPoints(important_keywords, description, 1)

\* (datetime.now() - article_date).total_seconds() / 3600, article_date at midnight
HoursOld(article_date, clock) == 24 * DaysBetween(clock.date, article_date) + clock.hour

BonusForHours(hours_old) ==
    IF hours_old < 6 THEN 4
    ELSE IF hours_old < 12 THEN 2
    ELSE IF hours_old < 24 THEN 1
    ELSE 0

RecencyBonus(article, clock, fmt) ==
    LET parsed == Strptime(article.date, fmt)
    IN  IF ~parsed.ok THEN 0
        ELSE BonusForHours(HoursOld(parsed.date, clock))

calculate_article_priority(article, clock, fmt) ==
    KeywordScore(article) + RecencyBonus(article, clock, fmt)

----------------------------------------------------------------------------
(* fetch_rss_feeds: one entry *)

\* An attribute an entry may lack is a sequence of at most one value.
Absent == <<>>
Has(attribute) == attribute # <<>>

\* a time.struct_time, or None where the feed's date text did not parse
Time(y, m, d, hour) == [valid |-> TRUE, date |-> [y |-> y, m |-> m, d |-> d], hour |-> hour]
None == [valid |-> FALSE, date |-> [y |-> 0, m |-> 0, d |-> 0], hour |-> 0]

\* the mutant of InWindow: the filter dropped
InWindowAlways(today, pub_date, days_to_include) == TRUE

\* if (today - pub_date).days <= CONFIG['rss']['days_to_include']
InWindow(today, pub_date, days_to_include) == DaysBetween(today, pub_date) <= days_to_include

\* the try block of one entry raises: datetime(*None[:6]), or entry.title is missing
EntryRaises(entry) ==
    \/ Has(entry.published_parsed) /\ ~entry.published_parsed[1].valid
    \/ ~Has(entry.published_parsed) /\ Has(entry.updated_parsed)
          /\ ~entry.updated_parsed[1].valid
    \/ ~Has(entry.title)

\* the timestamp the entry's date is taken from
EntryStamp(entry, clock) ==
    IF Has(entry.published_parsed) THEN entry.published_parsed[1]
    ELSE IF Has(entry.updated_parsed) THEN entry.updated_parsed[1]
    ELSE [valid |-> TRUE, date |-> clock.date, hour |-> clock.hour]

NoDescription == <<"No description available">>

EntryArticle(entry, clock, fmt) ==
    [title |-> entry.title[1],
     description |-> IF Has(entry.description) THEN entry.description[1] ELSE NoDescription,
     link |-> entry.link,
     date |-> Strftime(EntryStamp(entry, clock).date, fmt)]

\* the articles one entry adds
EntryArticles(entry, clock, cfg) ==
    IF EntryRaises(entry) THEN <<>>
    ELSE IF InWindow(clock.date, EntryStamp(entry, clock).date, cfg.days_to_include)
         THEN <<EntryArticle(entry, clock, cfg.date_format)>>
         ELSE <<>>

\* the mutant of NextEntry: the exception leaves the loop over the entries
NextEntryAbandonsFeed(entry, i, n) == IF EntryRaises(entry) THEN n + 1 ELSE i + 1

\* the entry the loop goes on with after entry i of n, whether or not it raised
NextEntry(entry, i, n) == i + 1

----------------------------------------------------------------------------
(* summarize_with_openai: scoring and selection *)

\* key=lambda x: (x[1], x[0]['date'])
SortKey(article, score) == <<score>> \o article.date

\* the list with x put after every element whose key is not greater
RECURSIVE InsertStable(_, _, _)
InsertStable(xs, x, key) ==
    IF xs = <<>> THEN <<x>>
    ELSE IF LexLess(key[x], key[Head(xs)]) THEN <<x>> \o xs
    ELSE <<Head(xs)>> \o InsertStable(Tail(xs), x, key)

\* a stable ascending sort
RECURSIVE StableSort(_, _)
StableSort(xs, key) ==
    IF xs = <<>> THEN <<>>
    ELSE InsertStable(StableSort(SubSeq(xs, 1, Len(xs) - 1), key), xs[Len(xs)], key)

\* the mutant of SortedReverse: ascending sort, then reversed
SortedThenReversed(xs, key) == Reverse(StableSort(xs, key))

\* sorted(xs, key=key, reverse=True): equal keys keep their order
SortedReverse(xs, key) == Reverse(StableSort(Reverse(xs), key))

Scores(arts, clock, fmt) ==
    [i \in 1..Len(arts) |-> calculate_article_priority(arts[i], clock, fmt)]

\* sorted_articles[:max_articles_to_process], as indices into arts
Select(arts, scores, cfg) ==
    LET key == [i \in 1..Len(arts) |-> SortKey(arts[i], scores[i])]
    IN  Take(SortedReverse([i \in 1..Len(arts) |-> i], key), cfg.max_articles_to_process)

----------------------------------------------------------------------------
(* summarize_with_openai: the prompt *)

\* str.capitalize() of one token
Capitalize(t) ==
    CASE t = "example" -> "Example"
      [] t = "news" -> "News"
      [] OTHER -> t

\* urlparse(url).netloc.replace('www.', '').split('.')[0].capitalize()
extract_source_from_url(link) ==
    LET labels == SelectSeq(link, LAMBDA l : l # "www")
    IN  IF labels = <<>> THEN "" ELSE Capitalize(Head(labels))

Truncated(description, max_description_length) ==
    IF Len(description) > max_description_length
    THEN Take(description, max_description_length) \o <<"...">>
    ELSE description

\* the five lines of one article and the blank line after them
Record(article, cfg) ==
    <<"Title:">> \o article.title \o <<NL>>
    \o <<"Source:", extract_source_from_url(article.link), NL>>
    \o <<"Date:">> \o [i \in 1..Len(article.date) |-> ToString(article.date[i])] \o <<NL>>
    \o <<"Description:">> \o Truncated(article.description, cfg.max_description_length) \o <<NL>>
    \o <<"Link:">> \o article.link \o <<NL, NL>>

Render(arts, selected, cfg) ==
    Concat([i \in 1..Len(selected) |-> Record(arts[selected[i]], cfg)])

\* text.split("\n\n")
RECURSIVE Split(_)
Split(text) ==
    LET at == {i \in 1..(Len(text) - 1) : text[i] = NL /\ text[i + 1] = NL}
    IN  IF at = {} THEN <<text>>
        ELSE LET i == CHOOSE j \in at : \A k \in at : j <= k
             IN  <<SubSeq(text, 1, i - 1)>> \o Split(SubSeq(text, i + 2, Len(text)))

\* "\n\n".join(parts)
RECURSIVE Join(_)
Join(parts) ==
    IF parts = <<>> THEN <<>>
    ELSE IF Len(parts) = 1 THEN parts[1]
    ELSE parts[1] \o <<NL, NL>> \o Join(Tail(parts))

\* "\n\n".join(articles_content.split("\n\n")[:max_articles_to_process // 2])
HalfContent(content, cfg) == Join(Take(Split(content), cfg.max_articles_to_process \div 2))

\* str(e) of the exceptions client.chat.completions.create raises
ContextLengthError == "This model's maximum context length is 4097 tokens."
RateLimitError == "Rate limit reached for requests."
ApiErrors == {ContextLengthError, RateLimitError}

\* the mutant of IsContextLength: every failure retried
IsAnyError(e) == TRUE

\* if "context length" in str(e).lower()
IsContextLength(e) == e = ContextLengthError

NoArticlesSummary == "No news articles found for today."
ErrorSummary == "Error generating summary. Please try again."
ResponseText == "response.choices[0].message.content"

----------------------------------------------------------------------------
(* main() *)

\* for url in rss_urls: feedparser.parse(url) raises; the feed is skipped
FeedRaises ==
    /\ pc = "fetch"
    /\ feedIdx <= Len(feeds)
    /\ ~feeds[feedIdx].ok
    /\ feedIdx' = feedIdx + 1
    /\ UNCHANGED <<feeds, CONFIG, now, pc, entries, entryIdx, articles, published,
                   articles_with_scores, articles_to_process, articles_content,
                   calls, errors, summary, reports>>

\* feedparser.parse(url) returns; entries = feed.entries[:max_articles_per_feed]
FeedParsed ==
    /\ pc = "fetch"
    /\ feedIdx <= Len(feeds)
    /\ feeds[feedIdx].ok
    /\ entries' = Take(feeds[feedIdx].entries, CONFIG.max_articles_per_feed)
    /\ entryIdx' = 1
    /\ pc' = "entries"
    /\ UNCHANGED <<feeds, CONFIG, now, feedIdx, articles, published,
                   articles_with_scores, articles_to_process, articles_content,
                   calls, errors, summary, reports>>

\* one pass of for entry in entries: the article appended, or the entry left out
\* (outside the window) or skipped (the except clause)
ProcessEntry ==
    /\ pc = "entries"
    /\ entryIdx <= Len(entries)
    /\ LET entry == entries[entryIdx]
           added == EntryArticles(entry, now, CONFIG)
       IN  /\ articles' = articles \o added
           /\ published' = IF added = <<>> THEN published
                           ELSE Append(published, EntryStamp(entry, now))
           /\ entryIdx' = NextEntry(entry, entryIdx, Len(entries))
    /\ UNCHANGED <<feeds, CONFIG, now, pc, feedIdx, entries,
                   articles_with_scores, articles_to_process, articles_content,
                   calls, errors, summary, reports>>

\* the entries of the feed are exhausted: the next url
FeedDone ==
    /\ pc = "entries"
    /\ entryIdx > Len(entries)
    /\ pc' = "fetch"
    /\ feedIdx' = feedIdx + 1
    /\ entries' = <<>>
    /\ entryIdx' = 1
    /\ UNCHANGED <<feeds, CONFIG, now, articles, published,
                   articles_with_scores, articles_to_process, articles_content,
                   calls, errors, summary, reports>>

\* return articles; main calls summarize_with_openai(articles)
FetchReturns ==
    /\ pc = "fetch"
    /\ feedIdx > Len(feeds)
    /\ pc' = "summarize"
    /\ UNCHANGED <<feeds, CONFIG, now, feedIdx, entries, entryIdx, articles, published,
                   articles_with_scores, articles_to_process, articles_content,
                   calls, errors, summary, reports>>

\* client = OpenAI()
ClientCreated ==
    /\ pc = "summarize"
    /\ pc' = "check"
    /\ UNCHANGED <<feeds, CONFIG, now, feedIdx, entries, entryIdx, articles, published,
                   articles_with_scores, articles_to_process, articles_content,
                   calls, errors, summary, reports>>

\* client = OpenAI() raises (no API key): nothing catches it, main ends with the exception
ClientRaises ==
    /\ pc = "summarize"
    /\ pc' = "raised"
    /\ UNCHANGED <<feeds, CONFIG, now, feedIdx, entries, entryIdx, articles, published,
                   articles_with_scores, articles_to_process, articles_content,
                   calls, errors, summary, reports>>

\* if not articles: return "No news articles found for today."
NoArticles ==
    /\ pc = "check"
    /\ articles = <<>>
    /\ summary' = NoArticlesSummary
    /\ pc' = "save"
    /\ UNCHANGED <<feeds, CONFIG, now, feedIdx, entries, entryIdx, articles, published,
                   articles_with_scores, articles_to_process, articles_content,
                   calls, errors, reports>>

\* the articles scored, sorted, cut to max_articles_to_process and rendered
Prepare ==
    /\ pc = "check"
    /\ articles # <<>>
    /\ LET scores == Scores(articles, now, CONFIG.date_format)
           selected == Select(articles, scores, CONFIG)
       IN  /\ articles_with_scores' = scores
           /\ articles_to_process' = selected
           /\ articles_content' = Render(articles, selected, CONFIG)
    /\ pc' = "first_call"
    /\ UNCHANGED <<feeds, CONFIG, now, feedIdx, entries, entryIdx, articles, published,
                   calls, errors, summary, reports>>

\* the first client.chat.completions.create returns
FirstCallReturns ==
    /\ pc = "first_call"
    /\ calls' = Append(calls, articles_content)
    /\ summary' = ResponseText
    /\ pc' = "save"
    /\ UNCHANGED <<feeds, CONFIG, now, feedIdx, entries, entryIdx, articles, published,
                   articles_with_scores, articles_to_process, articles_content,
                   errors, reports>>

\* the first client.chat.completions.create raises e
FirstCallRaises ==
    /\ pc = "first_call"
    /\ \E e \in ApiErrors :
          /\ calls' = Append(calls, articles_content)
          /\ errors' = Append(errors, e)
          /\ IF IsContextLength(e)
             THEN pc' = "retry" /\ UNCHANGED summary
             ELSE pc' = "save" /\ summary' = ErrorSummary
    /\ UNCHANGED <<feeds, CONFIG, now, feedIdx, entries, entryIdx, articles, published,
                   articles_with_scores, articles_to_process, articles_content, reports>>

\* the second client.chat.completions.create, on half_content, returns
RetryReturns ==
    /\ pc = "retry"
    /\ calls' = Append(calls, HalfContent(articles_content, CONFIG))
    /\ summary' = ResponseText
    /\ pc' = "save"
    /\ UNCHANGED <<feeds, CONFIG, now, feedIdx, entries, entryIdx, articles, published,
                   articles_with_scores, articles_to_process, articles_content,
                   errors, reports>>

\* the second client.chat.completions.create raises e2
RetryRaises ==
    /\ pc = "retry"
    /\ \E e2 \in ApiErrors :
          /\ calls' = Append(calls, HalfContent(articles_content, CONFIG))
          /\ errors' = Append(errors, e2)
    /\ summary' = ErrorSummary
    /\ pc' = "save"
    /\ UNCHANGED <<feeds, CONFIG, now, feedIdx, entries, entryIdx, articles, published,
                   articles_with_scores, articles_to_process, articles_content, reports>>

\* save_report(summary): the header and the summary written to the report file
SaveReport ==
    /\ pc = "save"
    /\ reports' = Append(reports, summary)
    /\ pc' = "done"
    /\ UNCHANGED <<feeds, CONFIG, now, feedIdx, entries, entryIdx, articles, published,
                   articles_with_scores, articles_to_process, articles_content,
                   calls, errors, summary>>

Next ==
    \/ FeedRaises
    \/ FeedParsed
    \/ ProcessEntry
    \/ FeedDone
    \/ FetchReturns
    \/ ClientCreated
    \/ ClientRaises
    \/ NoArticles
    \/ Prepare
    \/ FirstCallReturns
    \/ FirstCallRaises
    \/ RetryReturns
    \/ RetryRaises
    \/ SaveReport

----------------------------------------------------------------------------
(* The inputs of a run *)

MaxFeeds == 2       \* lines of rss_links.txt
MaxSelected == 3    \* entries of the feed the selection is checked on

SeqsUpTo(S, n) == UNION {[1..k -> S] : k \in 0..n}

Entry(published_parsed, updated_parsed, title, description) ==
    [published_parsed |-> published_parsed, updated_parsed |-> updated_parsed,
     title |-> title, description |-> description,
     link |-> <<"www", "example", "com">>]

Feed(es) == [ok |-> TRUE, entries |-> es]
FailedFeed == [ok |-> FALSE, entries |-> <<>>]

Config(days, per_feed, to_process, fmt) ==
    [days_to_include |-> days, max_articles_per_feed |-> per_feed,
     max_articles_to_process |-> to_process, max_description_length |-> 3,
     date_format |-> fmt]

Clock(hour) == [date |-> [y |-> 2025, m |-> 2, d |-> 1], hour |-> hour]

\* main() starts with the feeds, the configuration and the clock given
InitWith(feedLists, configs, clocks) ==
    /\ feeds \in feedLists
    /\ CONFIG \in configs
    /\ now \in clocks
    /\ pc = "fetch"
    /\ feedIdx = 1
    /\ entries = <<>>
    /\ entryIdx = 1
    /\ articles = <<>>
    /\ published = <<>>
    /\ articles_with_scores = <<>>
    /\ articles_to_process = <<>>
    /\ articles_content = <<>>
    /\ calls = <<>>
    /\ errors = <<>>
    /\ summary = ""
    /\ reports = <<>>

\* Feeds that fail, entries that raise, entries outside the window
LoopEntries ==
    { Entry(Absent, Absent, <<<<"market">>>>, Absent),
      Entry(<<Time(2025, 1, 31, 14)>>, Absent, <<<<"market">>>>, <<<<"x">>>>),
      Entry(<<None>>, <<Time(2025, 2, 1, 9)>>, <<<<"market">>>>, <<<<"x">>>>) }

LoopFeeds == {FailedFeed} \cup {Feed(es) : es \in SeqsUpTo(LoopEntries, 2)}

Init ==
    InitWith(SeqsUpTo(LoopFeeds, MaxFeeds),
             {Config(days, per_feed, 2, fmt) :
                 days \in {0, 1}, per_feed \in {1, 2}, fmt \in DateFormats},
             {Clock(13)})

Spec == Init /\ [][Next]_vars

\* One feed whose entries differ in score and date, under both date formats
SelectEntries ==
    { Entry(<<Time(2025, 2, 1, 11)>>, Absent, <<<<"market">>>>, <<<<"x">>>>),
      Entry(<<Time(2025, 1, 31, 14)>>, Absent, <<<<"market">>>>, <<<<"Update">>>>),
      Entry(<<Time(2025, 2, 1, 9)>>, Absent, <<<<"Breaking", "market", "crisis">>>>, <<<<"x">>>>),
      Entry(<<Time(2025, 1, 30, 9)>>, Absent, <<<<"market">>>>, <<<<"x">>>>),
      Entry(Absent, Absent, Absent, <<<<"x">>>>) }

InitSelect ==
    InitWith({<<FailedFeed>>} \cup {<<Feed(es)>> : es \in SeqsUpTo(SelectEntries, MaxSelected)},
             {Config(1, 5, to_process, fmt) : to_process \in {2, 3}, fmt \in DateFormats},
             {Clock(13)})

SpecSelect == InitSelect /\ [][Next]_vars

\* One entry, over titles, descriptions, publication times and times of day
ScoreTitles ==
    { <<"market">>, <<"Breaking", "market", "crisis">>, <<"breaking", "news", "breaking">>,
      <<"Quarterly", "Update", "announced">> }

ScoreDescriptions ==
    { <<<<"x">>>>, <<<<"crisis", "update", "crisis">>>>,
      <<<<"urgent", NL, NL, "official", "x">>>>, Absent }

ScoreTimes ==
    { Time(2025, 2, 1, 1), Time(2025, 2, 1, 11), Time(2025, 1, 31, 14), Time(2025, 1, 30, 9) }

ScoreEntries ==
    { Entry(<<t>>, Absent, <<title>>, description) :
        t \in ScoreTimes, title \in ScoreTitles, description \in ScoreDescriptions }
    \cup { Entry(Absent, <<None>>, <<<<"market">>>>, Absent) }

\* the entry was not published after the run
PublishedBy(entry, clock) ==
    LET stamp == EntryStamp(entry, clock)
    IN  stamp.valid => 24 * DaysBetween(clock.date, stamp.date) + clock.hour >= stamp.hour

InitScore ==
    /\ InitWith({<<FailedFeed>>} \cup {<<Feed(<<e>>)>> : e \in ScoreEntries},
                {Config(1, 5, 2, fmt) : fmt \in DateFormats},
                {Clock(3), Clock(10), Clock(13), Clock(23)})
    /\ \A f \in 1..Len(feeds) : \A j \in 1..Len(feeds[f].entries) :
          PublishedBy(feeds[f].entries[j], now)

SpecScore == InitScore /\ [][Next]_vars

----------------------------------------------------------------------------
(* Properties *)

Range(xs) == {xs[i] : i \in 1..Len(xs)}

Returned == pc \in {"save", "done"}    \* summarize_with_openai has returned
Ended == pc \in {"done", "raised"}     \* main has returned or ended with an exception

\* the calendar date the article's date text names
DateOf(article) == Strptime(article.date, CONFIG.date_format).date

\* C1: on a non-empty article list the service is called once or twice; there is a
\* second call exactly when the first call failed with the context-length error,
\* never after any other failure, and never a third call.
C1_AtMostOneRetry ==
    /\ Len(calls) <= 2
    /\ Len(errors) <= Len(calls)
    /\ Len(calls) = 2 => errors # <<>> /\ errors[1] = ContextLengthError
    /\ (Returned /\ articles # <<>>) => Len(calls) >= 1
    /\ (Returned /\ errors # <<>> /\ errors[1] = ContextLengthError) => Len(calls) = 2
    /\ (Returned /\ errors # <<>> /\ errors[1] # ContextLengthError) => Len(calls) = 1

\* a run whose first call failed on the context length and whose retry failed too
C1_Witness == pc = "done" /\ Len(calls) = 2 /\ Len(errors) = 2

\* text without the blank line that ends it
WithoutLastBlank(text) ==
    IF Len(text) >= 2 /\ text[Len(text)] = NL /\ text[Len(text) - 1] = NL
    THEN SubSeq(text, 1, Len(text) - 2)
    ELSE text

\* the first floor(k/2) of the k records assembled for the first call
FirstHalfOfAssembled ==
    Render(articles, Take(articles_to_process, Len(articles_to_process) \div 2), CONFIG)

\* C2: the article block of the retry is the first floor(k/2) of the k records
\* assembled for the first call, in the same order (with or without the blank line
\* that ends the last record).
C2_RetrySendsHalfOfAssembled ==
    Len(calls) = 2 =>
        calls[2] \in {FirstHalfOfAssembled, WithoutLastBlank(FirstHalfOfAssembled)}

\* C3: every run of main ends with exactly one report written, whose body is the
\* summarizer's text, the no-articles text or the error text; no fault of the
\* summarization, the set-up of its client included, ends main with an exception.
C3_OneReportWhateverFails ==
    Ended =>
        /\ pc = "done"
        /\ Len(reports) = 1
        /\ reports[1] \in {ResponseText, NoArticlesSummary, ErrorSummary}

\* C4: when fetch_rss_feeds returns no article the run calls the service never,
\* does not need the client, returns the no-articles text and writes it to a report.
C4_NoArticlesNeedsNoClient ==
    (Ended /\ articles = <<>>) =>
        /\ calls = <<>>
        /\ summary = NoArticlesSummary
        /\ reports = <<NoArticlesSummary>>

\* C5: the selected articles are ordered by score descending and, among equal
\* scores, by calendar date descending, under every date format.
C5_OrderedByScoreThenCalendarDate ==
    \A p, q \in 1..Len(articles_to_process) :
        p < q =>
            LET a == articles_to_process[p]
                b == articles_to_process[q]
            IN  \/ articles_with_scores[a] > articles_with_scores[b]
                \/ /\ articles_with_scores[a] = articles_with_scores[b]
                   /\ Ordinal(DateOf(articles[a])) >= Ordinal(DateOf(articles[b]))

\* the hours between the publication of an entry and the current time
AgeInHours(stamp, clock) == 24 * DaysBetween(clock.date, stamp.date) + clock.hour - stamp.hour

\* C6: the recency part of every score is the bonus of the article's age, the hours
\* between its publication and now: 4 under 6 hours, 2 under 12, 1 under 24, else 0.
C6_BonusIsOfAge ==
    \A i \in 1..Len(articles_with_scores) :
        articles_with_scores[i]
            = KeywordScore(articles[i]) + BonusForHours(AgeInHours(published[i], now))

\* the number of places of text that hold a keyword of the list
OccurrencesOf(keywords, text) ==
    Cardinality({i \in 1..Len(text) : text[i] \in Range(keywords)})

\* the number of keywords of the list that text holds
PresentOf(keywords, text) ==
    Cardinality({k \in Range(keywords) : \E i \in 1..Len(text) : text[i] = k})

\* C7 as stated: the keyword part of every score is 5 and 3 per occurrence of a
\* critical keyword in title and description, 3 and 1 per occurrence of an
\* important one.
C7_PerOccurrence ==
    \A i \in 1..Len(articles_with_scores) :
        LET title == Lower(articles[i].title)
            description == Lower(articles[i].description)
        IN  articles_with_scores[i] - RecencyBonus(articles[i], now, CONFIG.date_format)
              = 5 * OccurrencesOf(critical_keywords, title)
              + 3 * OccurrencesOf(critical_keywords, description)
              + 3 * OccurrencesOf(important_keywords, title)
              + OccurrencesOf(important_keywords, description)

\* C7 as amended: the keyword part of every score is 5 and 3 per critical keyword
\* that the title and the description hold at least once, 3 and 1 per important
\* keyword; a keyword a field holds twice counts once for that field.
C7_PerKeywordPresent ==
    \A i \in 1..Len(articles_with_scores) :
        LET title == Lower(articles[i].title)
            description == Lower(articles[i].description)
        IN  articles_with_scores[i] - RecencyBonus(articles[i], now, CONFIG.date_format)
              = 5 * PresentOf(critical_keywords, title)
              + 3 * PresentOf(critical_keywords, description)
              + 3 * PresentOf(important_keywords, title)
              + PresentOf(important_keywords, description)

\* a scored article whose title holds one keyword twice and whose description holds
\* another twice
C7_Witness ==
    \E i \in 1..Len(articles_with_scores) :
        /\ OccurrencesOf(<<"breaking">>, Lower(articles[i].title)) = 2
        /\ OccurrencesOf(<<"crisis">>, Lower(articles[i].description)) = 2

\* C8: selected articles of equal score and equal date keep the order in which
\* fetch_rss_feeds collected them.
C8_TiesKeepCollectionOrder ==
    \A p, q \in 1..Len(articles_to_process) :
        LET a == articles_to_process[p]
            b == articles_to_process[q]
        IN  (/\ p < q
             /\ articles_with_scores[a] = articles_with_scores[b]
             /\ articles[a].date = articles[b].date) => a < b

\* three articles selected, the first two of them tied on score and date and the
\* third with another score
C8_Witness ==
    /\ Len(articles_to_process) = 3
    /\ LET a == articles_to_process[1]
           b == articles_to_process[2]
           c == articles_to_process[3]
       IN  /\ articles_with_scores[a] = articles_with_scores[b]
           /\ articles[a].date = articles[b].date
           /\ articles_with_scores[c] # articles_with_scores[a]
           /\ c < b

\* C9: no collected article, by its date text as by the timestamp it was made from,
\* is more than days_to_include days before today; so none that is selected is.
C9_NoArticleOutsideWindow ==
    /\ Len(published) = Len(articles)
    /\ \A i \in 1..Len(articles) :
          /\ DaysBetween(now.date, DateOf(articles[i])) <= CONFIG.days_to_include
          /\ DaysBetween(now.date, published[i].date) <= CONFIG.days_to_include
    /\ Range(articles_to_process) \subseteq 1..Len(articles)

\* fetch_rss_feeds has returned articles, and an entry within the cap of a parsed
\* feed was dated outside the window
C9_Witness ==
    /\ pc = "summarize"
    /\ articles # <<>>
    /\ \E f \in 1..Len(feeds) :
          /\ feeds[f].ok
          /\ \E j \in 1..Min(Len(feeds[f].entries), CONFIG.max_articles_per_feed) :
                LET entry == feeds[f].entries[j]
                IN  /\ ~EntryRaises(entry)
                    /\ DaysBetween(now.date, EntryStamp(entry, now).date)
                          > CONFIG.days_to_include

\* the entry is well-formed and dated in the window
Contributes(entry) ==
    /\ ~EntryRaises(entry)
    /\ DaysBetween(now.date, EntryStamp(entry, now).date) <= CONFIG.days_to_include

\* what the feed contributes: nothing when its fetch raised, else the articles of
\* the contributing entries among its first max_articles_per_feed
ContributionOf(feed) ==
    IF ~feed.ok THEN <<>>
    ELSE LET kept == SelectSeq(Take(feed.entries, CONFIG.max_articles_per_feed), Contributes)
         IN  [i \in 1..Len(kept) |-> EntryArticle(kept[i], now, CONFIG.date_format)]

\* C10: what fetch_rss_feeds returns is, feed by feed and entry by entry, what the
\* contributing entries give: a feed whose fetch raised and an entry that raised
\* contribute nothing and change nothing else.
C10_FailuresAreIsolated ==
    pc \notin {"fetch", "entries"} =>
        articles = Concat([f \in 1..Len(feeds) |-> ContributionOf(feeds[f])])

\* fetch_rss_feeds has returned; a feed failed before a feed in which an entry
\* raised before an entry that contributed
C10_Witness ==
    /\ pc = "summarize"
    /\ \E f, g \in 1..Len(feeds) :
          /\ f < g
          /\ ~feeds[f].ok
          /\ feeds[g].ok
          /\ CONFIG.max_articles_per_feed >= 2
          /\ Len(feeds[g].entries) >= 2
          /\ EntryRaises(feeds[g].entries[1])
          /\ Contributes(feeds[g].entries[2])

====
